---- MODULE Spec2Model ----
(***************************************************************************)
(* Model of the YouTube transcript searcher (src/app.py): the plural-aware *)
(* search-pattern builder, the corpus search built on it, the transcript   *)
(* cache and the Streamlit script that drives them.                        *)
(*                                                                         *)
(* Strings whose characters matter (search terms, transcript text, the     *)
(* regular expression, publish dates) are sequences of code points.        *)
(***************************************************************************)
EXTENDS Integers, Sequences, FiniteSets, TLC

(***************************************************************************)
(* Bounds                                                                  *)
(***************************************************************************)
MaxTermLen == 2
NumVideos == 2

(***************************************************************************)
(* Characters and Python string primitives                                 *)
(***************************************************************************)
IsUpper(c) == c >= 65 /\ c <= 90

IsAlnum(c) == (c >= 48 /\ c <= 57) \/ (c >= 65 /\ c <= 90) \/ (c >= 97 /\ c <= 122)

\* \w of Python's re for ASCII text: letters, digits and the underscore
IsWordChar(c) == IsAlnum(c) \/ c = 95

LowerChar(c) == IF IsUpper(c) THEN c + 32 ELSE c

\* str.lower()
lower(s) == [i \in 1..Len(s) |-> LowerChar(s[i])]

\* str.endswith(suffix)
endswith(s, suffix) ==
    /\ Len(s) >= Len(suffix)
    /\ SubSeq(s, Len(s) - Len(suffix) + 1, Len(s)) = suffix

\* the slice s[:-n]
DropLast(s, n) == IF Len(s) > n THEN SubSeq(s, 1, Len(s) - n) ELSE <<>>

\* the characters re.escape prefixes with a backslash:
\* ( ) [ ] { } ? * + - | ^ $ \ . & ~ # space \t \n \r \v \f
SpecialChars ==
    {40, 41, 91, 93, 123, 125, 63, 42, 43, 45, 124, 94, 36, 92, 46, 38, 126, 35,
     32, 9, 10, 13, 11, 12}

RECURSIVE escape(_)
escape(s) ==
    IF s = <<>> THEN <<>>
    ELSE (IF Head(s) \in SpecialChars THEN <<92, Head(s)>> ELSE <<Head(s)>>)
         \o escape(Tail(s))

\* '|'.join(patterns)
RECURSIVE join(_)
join(ps) ==
    IF ps = <<>> THEN <<>>
    ELSE IF Len(ps) = 1 THEN ps[1]
    ELSE ps[1] \o <<124>> \o join(Tail(ps))

(***************************************************************************)
(* create_smart_search_pattern                                             *)
(***************************************************************************)
\* the suffixes the code tests, as code points
suf_y == <<121>>
suf_s == <<115>>
suf_sh == <<115, 104>>
suf_ch == <<99, 104>>
suf_x == <<120>>
suf_z == <<122>>
suf_f == <<102>>
suf_fe == <<102, 101>>
suf_es == <<101, 115>>
suf_ies == <<105, 101, 115>>
suf_ves == <<118, 101, 115>>

\* the plural variation appended after the original term (if/elif chain)
PluralVariation(search_term, escaped_term) ==
    IF endswith(search_term, suf_y) THEN DropLast(escaped_term, 1) \o suf_ies
    ELSE IF \E x \in {suf_s, suf_sh, suf_ch, suf_x, suf_z} : endswith(search_term, x)
         THEN escaped_term \o suf_es
    ELSE IF endswith(search_term, suf_f) THEN DropLast(escaped_term, 1) \o suf_ves
    ELSE IF endswith(search_term, suf_fe) THEN DropLast(escaped_term, 2) \o suf_ves
    ELSE escaped_term \o suf_s

\* the singular variations appended for a plural search term (second chain)
SingularVariations(search_term, escaped_term) ==
    IF endswith(search_term, suf_ies) THEN << DropLast(escaped_term, 3) \o suf_y >>
    ELSE IF endswith(search_term, suf_ves)
         THEN << DropLast(escaped_term, 3) \o suf_f, DropLast(escaped_term, 3) \o suf_fe >>
    ELSE IF endswith(search_term, suf_es) /\ Len(search_term) > 3
         THEN << DropLast(escaped_term, 2) >>
    ELSE IF endswith(search_term, suf_s) /\ Len(search_term) > 2
         THEN << DropLast(escaped_term, 1) >>
    ELSE << >>

\* the list `patterns` just before it is joined
patterns(search_term) ==
    LET escaped_term == escape(lower(search_term)) IN
    << escaped_term, PluralVariation(search_term, escaped_term) >>
    \o SingularVariations(search_term, escaped_term)

\* r'\b(?:' and r')\b'
pattern_prefix == <<92, 98, 40, 63, 58>>
pattern_suffix == <<41, 92, 98>>

\* pattern_string
pattern_string(search_term) ==
    pattern_prefix \o join(patterns(search_term)) \o pattern_suffix

(***************************************************************************)
(* re.compile / pattern.search for patterns of the shape built above       *)
(***************************************************************************)
\* the alternatives of the group, each a sequence of literal characters:
\* a backslash makes the next character literal, an unescaped | separates
RECURSIVE ParseAlternatives(_, _, _, _)
ParseAlternatives(body, i, cur, acc) ==
    IF i > Len(body) THEN Append(acc, cur)
    ELSE IF body[i] = 92 /\ i < Len(body)
         THEN ParseAlternatives(body, i + 2, Append(cur, body[i + 1]), acc)
    ELSE IF body[i] = 124
         THEN ParseAlternatives(body, i + 1, <<>>, Append(acc, cur))
    ELSE ParseAlternatives(body, i + 1, Append(cur, body[i]), acc)

\* re.compile(pattern_string, re.IGNORECASE): the compiled pattern is the
\* list of its alternatives; the two \b and the flag are applied by the search
re_compile(string) ==
    ParseAlternatives(
        SubSeq(string, Len(pattern_prefix) + 1, Len(string) - Len(pattern_suffix)),
        1, <<>>, <<>>)

\* create_smart_search_pattern(search_term): the compiled pattern
create_smart_search_pattern(search_term) == re_compile(pattern_string(search_term))

\* \b at offset pos (0..Len(text)): exactly one side is a word character
WordAt(text, k) == k >= 1 /\ k <= Len(text) /\ IsWordChar(text[k])

WordBoundary(text, pos) == WordAt(text, pos) # WordAt(text, pos + 1)

\* the literal alt occurs at offset pos, ignoring case (re.IGNORECASE)
OccursAt(alt, text, pos) ==
    /\ pos + Len(alt) <= Len(text)
    /\ \A k \in 1..Len(alt) : LowerChar(text[pos + k]) = LowerChar(alt[k])

\* compiled.search(text) is not None
pattern_search(compiled, text) ==
    \E pos \in 0..Len(text) : \E a \in 1..Len(compiled) :
        /\ WordBoundary(text, pos)
        /\ OccursAt(compiled[a], text, pos)
        /\ WordBoundary(text, pos + Len(compiled[a]))

(***************************************************************************)
(* Strings of the program, as code points                                  *)
(***************************************************************************)
str_empty == << >>
str_cat == <<99, 97, 116>>
str_cats_here == <<99, 97, 116, 115, 32, 104, 101, 114, 101>>
str_a_cat == <<97, 32, 99, 97, 116>>
str_dog == <<100, 111, 103>>
str_concatenate == <<99, 111, 110, 99, 97, 116, 101, 110, 97, 116, 101>>
str_Unknown == <<85, 110, 107, 110, 111, 119, 110>>
str_All_Channels == <<65, 108, 108, 32, 67, 104, 97, 110, 110, 101, 108, 115>>
str_A == <<65>>
str_a == <<97>>
str_2023_01_01 == <<50, 48, 50, 51, 45, 48, 49, 45, 48, 49>>
str_2024_06_01 == <<50, 48, 50, 52, 45, 48, 54, 45, 48, 49>>

\* a < b for Python strings: lexicographic by code point
RECURSIVE StrLess(_, _)
StrLess(a, b) ==
    IF b = << >> THEN FALSE
    ELSE IF a = << >> THEN TRUE
    ELSE IF Head(a) # Head(b) THEN Head(a) < Head(b)
    ELSE StrLess(Tail(a), Tail(b))

(***************************************************************************)
(* The external services and the inputs of the script                      *)
(***************************************************************************)
VideoIds == 1..NumVideos

\* to_raw_data(): the segments with their start times in seconds
Segment(start, text) == [start |-> start, text |-> text]

\* the transcripts the fetch service may return: an empty one, two without
\* the word, one with a single match, one with matches around a non-match
Transcripts ==
    { << >>,
      << Segment(0, str_dog) >>,
      << Segment(0, str_concatenate), Segment(4, str_dog) >>,
      << Segment(3, str_a_cat) >>,
      << Segment(0, str_cats_here), Segment(5, str_dog), Segment(9, str_a_cat) >> }

\* ytt_api.fetch(video_id): a transcript, or an exception
FetchResponses ==
    { [ok |-> FALSE, transcript |-> << >>] }
    \cup { [ok |-> TRUE, transcript |-> t] : t \in Transcripts }

ChannelTitles == {str_A, str_a}
PublishDates == {str_2023_01_01, str_2024_06_01}

\* youtube.videos().list(...).execute(): an exception, no item, or a snippet
MetaResponses ==
    { [kind |-> k, channelTitle |-> str_empty, publishedAt |-> str_empty] :
      k \in {"exception", "no_items"} }
    \cup { [kind |-> "ok", channelTitle |-> c, publishedAt |-> d] :
           c \in ChannelTitles, d \in PublishDates }

\* get_channel_videos: [] after an error, or the ids of the uploads playlist
RECURSIVE SeqsOver(_, _)
SeqsOver(S, n) ==
    IF n = 0 THEN { << >> }
    ELSE LET shorter == SeqsOver(S, n - 1) IN
         shorter \cup { Append(q, x) : q \in {r \in shorter : Len(r) = n - 1}, x \in S }

Injective(q) == \A i, j \in 1..Len(q) : q[i] = q[j] => i = j

VideoLists == { q \in SeqsOver(VideoIds, NumVideos) : Injective(q) }

\* the search box: empty, or a term
SearchTerms == {str_empty, str_cat}

Buttons == {"none", "channel", "video"}

(***************************************************************************)
(* The transcript cache                                                    *)
(***************************************************************************)
\* json.dump(transcript_data, f): the file as a flat sequence of values
RECURSIVE json_dump(_)
json_dump(transcript) ==
    IF transcript = << >> THEN << >>
    ELSE << <<"start", Head(transcript).start>>, <<"text", Head(transcript).text>> >>
         \o json_dump(Tail(transcript))

\* json.load(f)
RECURSIVE json_load(_)
json_load(content) ==
    IF Len(content) < 2 THEN << >>
    ELSE << [start |-> content[1][2], text |-> content[2][2]] >>
         \o json_load(Tail(Tail(content)))

NoFile == [exists |-> FALSE, content |-> << >>]

\* os.path.exists(cache_file)
\* mutant: the cache is never consulted
IsCachedNever(c, video_id) == FALSE

IsCached(c, video_id) == c[video_id].exists

\* the value None / a transcript, as returned by download_and_cache_transcript
None == [ok |-> FALSE, data |-> << >>]
Some(data) == [ok |-> TRUE, data |-> data]

\* download_and_cache_transcript(video_id) given what the fetch service answers:
\* the new cache, the value returned, and whether the service and the file
\* were touched
download_and_cache_transcript(c, video_id, response) ==
    IF IsCached(c, video_id)
    THEN [cache |-> c, ret |-> Some(json_load(c[video_id].content)),
          fetched |-> FALSE, stored |-> FALSE, failed |-> FALSE]
    ELSE IF response.ok
    THEN [cache |-> [c EXCEPT ![video_id] =
                        [exists |-> TRUE, content |-> json_dump(response.transcript)]],
          ret |-> Some(response.transcript),
          fetched |-> TRUE, stored |-> TRUE, failed |-> FALSE]
    ELSE [cache |-> c, ret |-> None, fetched |-> TRUE, stored |-> FALSE, failed |-> TRUE]

\* os.listdir(CACHE_DIR), the .json files: the cached ids in any order
CachedIds(c) == {v \in VideoIds : c[v].exists}

Listings(c) ==
    { q \in [1..Cardinality(CachedIds(c)) -> CachedIds(c)] : Injective(q) }

(***************************************************************************)
(* get_video_metadata, get_cached_channels, get_channel_videos             *)
(***************************************************************************)
\* the dictionary returned when the lookup fails
FallbackMetadata(video_id) ==
    [title |-> <<"Video", video_id>>, published_at |-> str_Unknown,
     channel_title |-> str_Unknown, description |-> ""]

\* `except Exception` catches whatever the service raises
\* mutant: the handler is as narrow as `except HttpError` and misses the error
CaughtByExceptHttpErrorOnly(kind) == kind # "exception"

CaughtByExcept(kind) == TRUE

\* get_video_metadata(video_id) given what the metadata service answers
get_video_metadata(video_id, response) ==
    IF response.kind = "ok"
    THEN [raised |-> FALSE,
          value |-> [title |-> <<"Title", video_id>>,
                     published_at |-> response.publishedAt,
                     channel_title |-> response.channelTitle,
                     description |-> "description"]]
    ELSE IF response.kind = "exception" /\ ~CaughtByExcept(response.kind)
    THEN [raised |-> TRUE, value |-> FallbackMetadata(video_id)]
    ELSE [raised |-> FALSE, value |-> FallbackMetadata(video_id)]

\* sorted(list(channels))
RECURSIVE SortedStrings(_)
SortedStrings(S) ==
    IF S = {} THEN << >>
    ELSE LET least == CHOOSE x \in S : \A y \in S \ {x} : StrLess(x, y)
         IN <<least>> \o SortedStrings(S \ {least})

\* the body of the loop of get_cached_channels: the channel title is kept
\* unless it is 'Unknown'; the bare except skips a lookup that raised
get_cached_channels_add(channels_so_far, m) ==
    IF m.raised \/ m.value.channel_title = str_Unknown THEN channels_so_far
    ELSE channels_so_far \cup {m.value.channel_title}

\* the listing service: an HttpError or no channel, or the uploads playlist
ListingResponses ==
    { [ok |-> FALSE, videos |-> << >>] }
    \cup { [ok |-> TRUE, videos |-> q] : q \in VideoLists }

\* get_channel_videos(channel_handle)
get_channel_videos(response) == IF response.ok THEN response.videos ELSE << >>

Range(q) == { q[i] : i \in 1..Len(q) }

(***************************************************************************)
(* search_all_transcripts                                                  *)
(***************************************************************************)
\* the loop over the entries of one transcript
RECURSIVE scan_transcript(_, _)
scan_transcript(pattern, transcript) ==
    IF transcript = << >> THEN << >>
    ELSE (IF pattern_search(pattern, Head(transcript).text)
          THEN << [timestamp |-> Head(transcript).start, text |-> Head(transcript).text] >>
          ELSE << >>)
         \o scan_transcript(pattern, Tail(transcript))

\* `if video_results:`
\* mutant: the metadata is fetched for every cached video
HasMatchesAlways(video_results) == TRUE

HasMatches(video_results) == video_results # << >>

\* the channel filter's `continue`
\* mutant: the titles are compared ignoring case
ExcludedByFilterIgnoringCase(filter, metadata) ==
    /\ filter # str_empty
    /\ filter # str_All_Channels
    /\ lower(metadata.channel_title) # lower(filter)

ExcludedByFilter(filter, metadata) ==
    /\ filter # str_empty
    /\ filter # str_All_Channels
    /\ metadata.channel_title # filter

\* list.sort(key=published_at, reverse=True): descending and stable
RECURSIVE InsertDescending(_, _)
InsertDescending(sorted, x) ==
    IF sorted = << >> THEN <<x>>
    ELSE IF StrLess(Head(sorted).metadata.published_at, x.metadata.published_at)
         THEN <<x>> \o sorted
    ELSE <<Head(sorted)>> \o InsertDescending(Tail(sorted), x)

RECURSIVE InsertAscending(_, _)
InsertAscending(sorted, x) ==
    IF sorted = << >> THEN <<x>>
    ELSE IF StrLess(x.metadata.published_at, Head(sorted).metadata.published_at)
         THEN <<x>> \o sorted
    ELSE <<Head(sorted)>> \o InsertAscending(Tail(sorted), x)

RECURSIVE SortAscendingInto(_, _)
SortAscendingInto(rs, acc) ==
    IF rs = << >> THEN acc
    ELSE SortAscendingInto(Tail(rs), InsertAscending(acc, Head(rs)))

RECURSIVE SortDescendingInto(_, _)
SortDescendingInto(rs, acc) ==
    IF rs = << >> THEN acc
    ELSE SortDescendingInto(Tail(rs), InsertDescending(acc, Head(rs)))

Reverse(q) == [i \in 1..Len(q) |-> q[Len(q) + 1 - i]]

\* mutant: sorted ascending and then reversed, which turns the ties around
sort_then_reverse(rs) == Reverse(SortAscendingInto(rs, << >>))

sort_results(rs) == SortDescendingInto(rs, << >>)

(***************************************************************************)
(* State                                                                   *)
(***************************************************************************)
VARIABLES
    cache,              \* transcript_cache/<video_id>.json, per video id
    pc,                 \* where the script run stands
    run,                \* what the section of the script at hand did so far
    queue,              \* the videos the channel download still has to do
    last_call,          \* the last call of download_and_cache_transcript
    search_term,        \* the search box
    channel_filter,     \* the selected channel
    pending,            \* the cached videos get_cached_channels still has to visit
    channels,           \* the set get_cached_channels collects
    pattern,            \* the pattern compiled by the search
    files,              \* os.listdir(CACHE_DIR) as the search iterates it
    idx,                \* the position of the search in files
    scanned,            \* the videos whose transcript the search has scanned
    video_results,      \* the matches of the video at hand
    results,            \* the list the search appends to
    outcome,            \* the list search_all_transcripts returned
    fetched,            \* per video, what the search got from get_video_metadata, and
                        \* whether the service had failed
    meta_calls,         \* per video, the metadata calls the search issued
    pat_pc, pat_term, pat_string, pat_compiled, pat_text, pat_hit
                        \* one use of the pattern builder on its own

app_vars ==
    << cache, pc, run, queue, last_call, search_term, channel_filter, pending,
       channels, pattern, files, idx, scanned, video_results, results,
       outcome, fetched, meta_calls >>

main_vars == << pending, channels >>

search_vars ==
    << pattern, files, idx, scanned, video_results, results, outcome, fetched,
       meta_calls >>

pat_vars == << pat_pc, pat_term, pat_string, pat_compiled, pat_text, pat_hit >>

vars == << app_vars, pat_vars >>

NoRun ==
    [section |-> "sidebar", button |-> "none", handle_empty |-> FALSE,
     calls |-> {}, msgs |-> {}, wrote |-> FALSE, searched |-> FALSE,
     downloaded_count |-> 0]

NoCall ==
    [video_id |-> 0, n |-> 0, cached |-> FALSE, fetched |-> FALSE,
     stored |-> FALSE, failed |-> FALSE, ret |-> None]

NotFetched ==
    [called |-> FALSE, failed |-> FALSE, metadata |-> FallbackMetadata(0)]

AppInit ==
    /\ cache = [v \in VideoIds |-> NoFile]
    /\ pc = "start"
    /\ run = NoRun
    /\ queue = << >>
    /\ last_call = NoCall
    /\ search_term = str_empty
    /\ channel_filter = str_All_Channels
    /\ pending = {}
    /\ channels = {}
    /\ pattern = << >>
    /\ files = << >>
    /\ idx = 1
    /\ scanned = {}
    /\ video_results = << >>
    /\ results = << >>
    /\ outcome = << >>
    /\ fetched = [v \in VideoIds |-> NotFetched]
    /\ meta_calls = [v \in VideoIds |-> 0]

PatIdle ==
    /\ pat_pc = "off"
    /\ pat_term = << >>
    /\ pat_string = << >>
    /\ pat_compiled = << >>
    /\ pat_text = << >>
    /\ pat_hit = FALSE

Init == AppInit /\ PatIdle

(***************************************************************************)
(* The script: one run per user interaction                                *)
(***************************************************************************)
\* `if transcript:` - None and the empty list are both false
Truthy(ret) == ret.ok /\ ret.data # << >>

CallRecord(video_id, c, d) ==
    [video_id |-> video_id, n |-> 1 - last_call.n, cached |-> IsCached(c, video_id),
     fetched |-> d.fetched, stored |-> d.stored, failed |-> d.failed, ret |-> d.ret]

\* the user interacts: the script starts over with one button pressed, or none
Rerun ==
    /\ pc \in {"start", "idle", "crashed"}
    /\ \E button \in Buttons : run' = [NoRun EXCEPT !.button = button]
    /\ pc' = "sidebar"
    /\ queue' = << >>
    /\ last_call' = NoCall
    /\ search_term' = str_empty
    /\ channel_filter' = str_All_Channels
    /\ pending' = {}
    /\ channels' = {}
    /\ pattern' = << >>
    /\ files' = << >>
    /\ idx' = 1
    /\ scanned' = {}
    /\ video_results' = << >>
    /\ results' = << >>
    /\ outcome' = << >>
    /\ fetched' = [v \in VideoIds |-> NotFetched]
    /\ meta_calls' = [v \in VideoIds |-> 0]
    /\ UNCHANGED << cache, pat_vars >>

\* neither button was pressed
SidebarIdle ==
    /\ pc = "sidebar"
    /\ run.button = "none"
    /\ pc' = "main"
    /\ UNCHANGED << main_vars, cache, run, queue, last_call, search_term, channel_filter,
                    search_vars, pat_vars >>

\* "Download Channel Transcripts" with an empty handle
ChannelEmptyHandle ==
    /\ pc = "sidebar"
    /\ run.button = "channel"
    /\ run' = [run EXCEPT !.handle_empty = TRUE,
                          !.msgs = @ \cup {"Please enter a channel handle"}]
    /\ pc' = "main"
    /\ UNCHANGED << main_vars, cache, queue, last_call, search_term, channel_filter,
                    search_vars, pat_vars >>

\* "Download Channel Transcripts" with a handle: get_channel_videos
ChannelListVideos ==
    /\ pc = "sidebar"
    /\ run.button = "channel"
    /\ \E response \in ListingResponses :
         LET videos == get_channel_videos(response) IN
         /\ run' = [run EXCEPT
                      !.calls = @ \cup {"listing"},
                      !.msgs = @ \cup (IF response.ok THEN {} ELSE {"YouTube API error"})
                                 \cup (IF videos # << >>
                                       THEN {"Found videos"}
                                       ELSE {"No videos found or error accessing channel"})]
         /\ queue' = videos
         /\ pc' = IF videos # << >> THEN "downloading" ELSE "main"
    /\ UNCHANGED << main_vars, cache, last_call, search_term, channel_filter,
                    search_vars, pat_vars >>

\* one iteration of the download loop, and what follows the last one
ChannelDownloadNext ==
    /\ pc = "downloading"
    /\ \E response \in FetchResponses :
         LET video_id == Head(queue)
             d == download_and_cache_transcript(cache, video_id, response)
             last == Tail(queue) = << >>
         IN
         /\ cache' = d.cache
         /\ last_call' = CallRecord(video_id, cache, d)
         /\ run' = [run EXCEPT
                      !.calls = @ \cup (IF d.fetched THEN {"transcript"} ELSE {}),
                      !.msgs = @ \cup (IF d.failed THEN {"Error downloading transcript"} ELSE {})
                                 \cup (IF last THEN {"Completed"} ELSE {}),
                      !.wrote = @ \/ d.stored,
                      !.downloaded_count = IF Truthy(d.ret) THEN @ + 1 ELSE @]
         /\ queue' = Tail(queue)
         /\ pc' = IF last THEN "main" ELSE "downloading"
    /\ UNCHANGED << main_vars, search_term, channel_filter, search_vars, pat_vars >>

\* "Download Video Transcript" with an empty video id: nothing happens
VideoEmptyInput ==
    /\ pc = "sidebar"
    /\ run.button = "video"
    /\ pc' = "main"
    /\ UNCHANGED << main_vars, cache, run, queue, last_call, search_term, channel_filter,
                    search_vars, pat_vars >>

\* "Download Video Transcript" with a video id
VideoDownload ==
    /\ pc = "sidebar"
    /\ run.button = "video"
    /\ \E video_id \in VideoIds : \E response \in FetchResponses :
         LET d == download_and_cache_transcript(cache, video_id, response) IN
         /\ cache' = d.cache
         /\ last_call' = CallRecord(video_id, cache, d)
         /\ run' = [run EXCEPT
                      !.calls = @ \cup (IF d.fetched THEN {"transcript"} ELSE {}),
                      !.msgs = @ \cup (IF d.failed THEN {"Error downloading transcript"} ELSE {})
                                 \cup (IF Truthy(d.ret)
                                       THEN {"Successfully cached transcript"}
                                       ELSE {"Failed to download transcript"}),
                      !.wrote = @ \/ d.stored]
    /\ pc' = "main"
    /\ UNCHANGED << main_vars, queue, search_term, channel_filter, search_vars, pat_vars >>

\* the main section starts: get_cached_channels is entered
MainBegin ==
    /\ pc = "main"
    /\ run' = [NoRun EXCEPT !.section = "main"]
    /\ last_call' = NoCall
    /\ pending' = CachedIds(cache)
    /\ channels' = {}
    /\ pc' = "channels"
    /\ UNCHANGED << cache, queue, search_term, channel_filter, search_vars, pat_vars >>

\* one iteration of the loop of get_cached_channels
GetCachedChannelsNext ==
    /\ pc = "channels"
    /\ \E video_id \in pending : \E response \in MetaResponses :
         LET m == get_video_metadata(video_id, response) IN
         /\ pending' = pending \ {video_id}
         /\ channels' = get_cached_channels_add(channels, m)
         /\ run' = [run EXCEPT
                      !.calls = @ \cup {"metadata"},
                      !.msgs = @ \cup (IF response.kind = "exception"
                                       THEN {"Error fetching metadata"} ELSE {})]
    /\ UNCHANGED << cache, pc, queue, last_call, search_term, channel_filter,
                    search_vars, pat_vars >>

\* get_cached_channels returns; the search box and the channel filter are read
MainInterface ==
    /\ pc = "channels"
    /\ pending = {}
    /\ LET available_channels == SortedStrings(channels)
           channel_options == <<str_All_Channels>> \o available_channels
       IN \E k \in 1..Len(channel_options) : channel_filter' = channel_options[k]
    /\ \E term \in SearchTerms : search_term' = term
    /\ channels' = {}
    /\ pc' = "gate"
    /\ UNCHANGED << cache, run, queue, last_call, pending, search_vars, pat_vars >>

\* `if search_term:`
\* mutant: the search runs whatever the box holds
TermGivenAlways(term) == TRUE

TermGiven(term) == term # str_empty

\* `if search_term:` is false: the run ends
SearchSkipped ==
    /\ pc = "gate"
    /\ ~TermGiven(search_term)
    /\ pc' = "idle"
    /\ UNCHANGED << main_vars, cache, run, queue, last_call, search_term, channel_filter,
                    search_vars, pat_vars >>

\* search_all_transcripts is entered: the pattern, and the directory listing
SearchBegin ==
    /\ pc = "gate"
    /\ TermGiven(search_term)
    /\ pattern' = create_smart_search_pattern(search_term)
    /\ \E listing \in Listings(cache) : files' = listing
    /\ idx' = 1
    /\ results' = << >>
    /\ run' = [NoRun EXCEPT !.section = "search", !.searched = TRUE]
    /\ pc' = "scan"
    /\ UNCHANGED << main_vars, cache, queue, last_call, search_term, channel_filter,
                    scanned, video_results, outcome, fetched,
                    meta_calls, pat_vars >>

\* the next file is loaded and its entries are matched
SearchScan ==
    /\ pc = "scan"
    /\ idx <= Len(files)
    /\ LET video_id == files[idx]
           transcript == json_load(cache[video_id].content)
           found == scan_transcript(pattern, transcript)
       IN
       /\ video_results' = found
       /\ scanned' = scanned \cup {video_id}
       /\ IF HasMatches(found)
          THEN pc' = "meta" /\ idx' = idx
          ELSE pc' = "scan" /\ idx' = idx + 1
    /\ UNCHANGED << main_vars, cache, run, queue, last_call, search_term, channel_filter,
                    pattern, files, results, outcome, fetched,
                    meta_calls, pat_vars >>

\* the video matched: its metadata is fetched, the filter applied, the
\* result appended
SearchMetadata ==
    /\ pc = "meta"
    /\ \E response \in MetaResponses :
         LET video_id == files[idx]
             m == get_video_metadata(video_id, response)
         IN
         /\ meta_calls' = [meta_calls EXCEPT ![video_id] = @ + 1]
         /\ run' = [run EXCEPT
                      !.calls = @ \cup {"metadata"},
                      !.msgs = @ \cup (IF response.kind = "exception"
                                       THEN {"Error fetching metadata"} ELSE {})]
         /\ IF m.raised
            THEN /\ pc' = "crashed"
                 /\ UNCHANGED << fetched, results, idx, video_results >>
            ELSE /\ fetched' = [fetched EXCEPT ![video_id] =
                                  [called |-> TRUE, failed |-> response.kind # "ok",
                                   metadata |-> m.value]]
                 /\ results' =
                      IF ExcludedByFilter(channel_filter, m.value) THEN results
                      ELSE Append(results,
                                  [video_id |-> video_id, metadata |-> m.value,
                                   matches |-> video_results])
                 /\ idx' = idx + 1
                 /\ video_results' = << >>
                 /\ pc' = "scan"
    /\ UNCHANGED << main_vars, cache, queue, last_call, search_term, channel_filter,
                    pattern, files, scanned, outcome, pat_vars >>

\* every file was visited: the results are sorted and returned
SearchReturn ==
    /\ pc = "scan"
    /\ idx > Len(files)
    /\ outcome' = sort_results(results)
    /\ run' = [run EXCEPT
                 !.msgs = @ \cup (IF results # << >>
                                  THEN {"Found results"}
                                  ELSE {"No results found in cached transcripts"})]
    /\ pc' = "idle"
    /\ UNCHANGED << main_vars, cache, queue, last_call, search_term, channel_filter,
                    pattern, files, idx, scanned, video_results,
                    results, fetched, meta_calls, pat_vars >>

Next ==
    \/ Rerun
    \/ SidebarIdle
    \/ ChannelEmptyHandle
    \/ ChannelListVideos
    \/ ChannelDownloadNext
    \/ VideoEmptyInput
    \/ VideoDownload
    \/ MainBegin
    \/ GetCachedChannelsNext
    \/ MainInterface
    \/ SearchSkipped
    \/ SearchBegin
    \/ SearchScan
    \/ SearchMetadata
    \/ SearchReturn

Spec == Init /\ [][Next]_vars

(***************************************************************************)
(* The pattern builder on its own: a term is compiled and a text searched  *)
(***************************************************************************)
\* a e f s x y Y +
TermAlphabet == {97, 101, 102, 115, 120, 121, 89, 43}

SampleTerms ==
    { <<99, 97, 116>>,
      <<99, 97, 116, 115>>,
      <<99, 105, 116, 121>>,
      <<99, 105, 116, 105, 101, 115>>,
      <<98, 117, 115>>,
      <<100, 105, 115, 104>>,
      <<98, 111, 120>>,
      <<108, 101, 97, 102>>,
      <<107, 110, 105, 102, 101>>,
      <<100, 111, 103>>,
      <<99, 97, 107, 101>>,
      <<99, 97, 107, 101, 115>>,
      <<112, 105, 101>>,
      <<67, 97, 116>>,
      <<67, 73, 84, 89>>,
      <<99, 43, 43>> }

SearchInputs ==
    { t \in SeqsOver(TermAlphabet, MaxTermLen) : t # << >> } \cup SampleTerms

SampleTexts ==
    { <<99, 97, 116, 97, 115, 116, 114, 111, 112, 104, 101>>,
      <<73, 32, 115, 97, 119, 32, 97, 32, 67, 65, 84>>,
      <<84, 104, 101, 114, 101, 32, 97, 114, 101, 32, 99, 97, 116, 115, 32, 104, 101, 114, 101>>,
      <<111, 110, 101, 32, 99, 97, 116>> }

\* the literal word forms the compiled pattern accepts
Forms(term) == Range(create_smart_search_pattern(term))

\* what may stand next to a word in a text: nothing, a space, a letter, a
\* digit, an underscore, a plus sign
Pads == { << >>, <<32>>, <<97>>, <<49>>, <<95>>, <<43>> }

\* the texts tried on a term: the term and its forms in either case, alone
\* and with a neighbour on each side, and the sample sentences
TextsFor(term) ==
    LET words == {term, lower(term)} \cup Forms(term) \cup Forms(lower(term))
    IN { l \o w \o r : l \in Pads, w \in words, r \in Pads } \cup SampleTexts

PatInit ==
    /\ pat_pc = "term"
    /\ pat_term \in SearchInputs
    /\ pat_string = << >>
    /\ pat_compiled = << >>
    /\ pat_text = << >>
    /\ pat_hit = FALSE

\* pattern = create_smart_search_pattern(search_term)
CompilePattern ==
    /\ pat_pc = "term"
    /\ pat_string' = pattern_string(pat_term)
    /\ pat_compiled' = re_compile(pattern_string(pat_term))
    /\ pat_pc' = "compiled"
    /\ UNCHANGED << pat_term, pat_text, pat_hit, app_vars >>

\* pattern.search(text)
SearchText ==
    /\ pat_pc = "compiled"
    /\ \E text \in TextsFor(pat_term) :
         /\ pat_text' = text
         /\ pat_hit' = pattern_search(pat_compiled, text)
    /\ pat_pc' = "searched"
    /\ UNCHANGED << pat_term, pat_string, pat_compiled, app_vars >>

InitPattern == AppInit /\ PatInit

NextPattern == CompilePattern \/ SearchText

SpecPattern == InitPattern /\ [][NextPattern]_vars

(***************************************************************************)
(* Properties of the pattern builder                                       *)
(***************************************************************************)
\* the matcher of a term applied to a text
Matches(term, text) == pattern_search(create_smart_search_pattern(term), text)

\* C1: the matcher built from a non-empty lower-case term accepts the text
\* that consists of the term itself.
SelfMatch ==
    (pat_pc = "searched" /\ pat_term = lower(pat_term) /\ pat_text = pat_term)
        => pat_hit

\* the plural the forward rule derives: the second entry of `patterns`
ForwardPlural(term) == create_smart_search_pattern(term)[2]

Standalone(word) == <<32>> \o word \o <<32>>

IsLowerLetter(c) == c >= 97 /\ c <= 122

\* a term of three or more lower-case letters: neither letter case nor the
\* word boundary of a non-letter plays a part
RegularTerm(term) ==
    Len(term) >= 3 /\ \A k \in 1..Len(term) : IsLowerLetter(term[k])

\* C2: with p the plural the forward rule derives from the term, the matcher
\* of the term accepts a text with p as a standalone word and the matcher of
\* p accepts a text with the term as a standalone word. Stated for the terms
\* of three or more lower-case letters, which the claim covers.
PluralRoundTrip ==
    (pat_pc = "compiled" /\ RegularTerm(pat_term)) =>
        LET p == ForwardPlural(pat_term) IN
        /\ pattern_search(pat_compiled, Standalone(p))
        /\ Matches(p, Standalone(pat_term))

\* C3: the matcher of a term accepts a text exactly when the matcher of the
\* lower-cased term accepts the lower-cased text.
CaseInsensitive ==
    pat_pc = "searched" =>
        (pat_hit <=> Matches(lower(pat_term), lower(pat_text)))

AlnumAt(text, k) == k >= 1 /\ k <= Len(text) /\ IsAlnum(text[k])

\* C4: a text is accepted only if one of the generated word forms occurs in
\* it with no alphanumeric character right before or right after it.
WholeWordOnly ==
    (pat_pc = "searched" /\ pat_hit) =>
        \E form \in Forms(pat_term) : \E pos \in 0..Len(pat_text) :
            /\ OccursAt(form, pat_text, pos)
            /\ ~AlnumAt(pat_text, pos)
            /\ ~AlnumAt(pat_text, pos + Len(form) + 1)

(***************************************************************************)
(* Properties of the script                                                *)
(***************************************************************************)
\* search_all_transcripts has returned
Done == pc = "idle" /\ run.searched

InOutcome(video_id) == \E i \in 1..Len(outcome) : outcome[i].video_id = video_id

LookupFailed(video_id) == fetched[video_id].called /\ fetched[video_id].failed

FilterOff == channel_filter = str_empty \/ channel_filter = str_All_Channels

\* the matching segments of a cached transcript, in transcript order
MatchingSegments(video_id) ==
    LET hits == SelectSeq(json_load(cache[video_id].content),
                          LAMBDA entry : pattern_search(pattern, entry.text))
    IN [i \in 1..Len(hits) |-> [timestamp |-> hits[i].start, text |-> hits[i].text]]

\* C5 as claimed: the search never raises, and a video whose lookup failed is
\* in the outcome with the fallback metadata.
MetadataFallbackListed ==
    /\ pc # "crashed"
    /\ Done => \A v \in VideoIds : LookupFailed(v) =>
           \E i \in 1..Len(outcome) :
               outcome[i].video_id = v /\ outcome[i].metadata = FallbackMetadata(v)

\* C5, amended: the search never raises; a video whose lookup failed gets the
\* fallback metadata and is in the outcome unless a channel filter other than
\* 'All Channels' and 'Unknown' is selected, which excludes it; the results of
\* the other videos carry the metadata the service returned for them.
MetadataFallback ==
    /\ pc # "crashed"
    /\ \A v \in VideoIds : LookupFailed(v) => fetched[v].metadata = FallbackMetadata(v)
    /\ Done => \A v \in VideoIds : LookupFailed(v) =>
           IF FilterOff \/ channel_filter = str_Unknown
           THEN \E i \in 1..Len(outcome) :
                    outcome[i].video_id = v /\ outcome[i].metadata = FallbackMetadata(v)
           ELSE ~InOutcome(v)
    /\ Done => \A v \in VideoIds : (fetched[v].called /\ ~LookupFailed(v)) =>
           /\ fetched[v].metadata.title = <<"Title", v>>
           /\ (FilterOff \/ fetched[v].metadata.channel_title = channel_filter) =>
                  \E i \in 1..Len(outcome) :
                      outcome[i].video_id = v /\ outcome[i].metadata = fetched[v].metadata

MetadataFallbackWitness ==
    /\ Done
    /\ \E v, w \in VideoIds :
         /\ LookupFailed(v) /\ InOutcome(v)
         /\ fetched[w].called /\ ~LookupFailed(w) /\ InOutcome(w)

Called(video_id) == last_call' # last_call /\ last_call'.video_id = video_id

WriteOnceStep ==
    /\ \A v \in VideoIds : cache[v].exists =>
         /\ cache'[v] = cache[v]
         /\ Called(v) =>
              /\ ~last_call'.fetched
              /\ ~last_call'.stored
              /\ last_call'.ret = Some(json_load(cache[v].content))
    /\ \A v \in VideoIds : (Called(v) /\ last_call'.failed) =>
         /\ cache' = cache
         /\ ~cache'[v].exists

\* C6: once a video has a cache entry, no call for it fetches or writes, the
\* entry never changes and every call returns its content; a call whose fetch
\* fails creates no entry.
WriteOnce == [][WriteOnceStep]_vars

WriteOnceWitness ==
    /\ last_call.video_id \in VideoIds
    /\ last_call.cached
    /\ last_call.ret.ok
    /\ last_call.ret.data # << >>

\* C7: the search fetches the metadata of a video at most once, and only
\* after it scanned the transcript and found a match; a video without a match
\* causes no fetch and is not in the outcome; every result holds exactly the
\* matching segments of its transcript, in order, and at least one.
FetchOnlyAfterMatch ==
    \A v \in VideoIds :
        /\ meta_calls[v] <= 1
        /\ InOutcome(v) => cache[v].exists
        /\ (meta_calls[v] >= 1 \/ (Done /\ cache[v].exists)) =>
             LET expected == MatchingSegments(v) IN
             /\ meta_calls[v] >= 1 => (v \in scanned /\ expected # << >>)
             /\ (Done /\ expected = << >>) => (meta_calls[v] = 0 /\ ~InOutcome(v))
             /\ Done => \A i \in 1..Len(outcome) : outcome[i].video_id = v =>
                    (outcome[i].matches # << >> /\ outcome[i].matches = expected)

FetchOnlyAfterMatchWitness ==
    /\ Done
    /\ \E v \in CachedIds(cache) : v \in scanned /\ MatchingSegments(v) = << >>
    /\ \E i \in 1..Len(outcome) : Len(outcome[i].matches) = 2

\* C8 as claimed: an empty search term, or an empty channel handle on a
\* download request, causes no call to a service, changes no state and shows
\* a message.
InvalidInputRejected ==
    /\ (pc = "idle" /\ search_term = str_empty) =>
           run.calls = {} /\ run.msgs # {} /\ ~run.wrote
    /\ (pc = "main" /\ run.handle_empty) =>
           run.calls = {} /\ run.msgs # {} /\ ~run.wrote

\* C8, amended: with an empty search term search_all_transcripts is not
\* called and nothing is listed, downloaded or written, but the metadata
\* service has been called for the cached videos to fill the channel filter
\* and no message tells of the empty term; with an empty channel handle the
\* download handler calls no service, writes nothing and shows its error.
InvalidInputNoSearch ==
    /\ (pc = "idle" /\ search_term = str_empty) =>
           /\ ~run.searched
           /\ run.calls = (IF CachedIds(cache) # {} THEN {"metadata"} ELSE {})
           /\ run.msgs \subseteq {"Error fetching metadata"}
           /\ ~run.wrote
           /\ outcome = << >>
           /\ \A v \in VideoIds : meta_calls[v] = 0
    /\ (pc = "main" /\ run.handle_empty) =>
           /\ run.calls = {}
           /\ run.msgs = {"Please enter a channel handle"}
           /\ ~run.wrote
           /\ last_call = NoCall

InvalidInputWitness ==
    /\ pc = "idle"
    /\ search_term = str_empty
    /\ "metadata" \in run.calls
    /\ run.msgs = {}

\* C9: with a channel filter other than 'All Channels' every result has
\* exactly that channel title and every matching video whose fetched title
\* equals it is in the outcome; without one no matching video is left out;
\* the title tested is the one fetched for the video by this search.
ChannelFilterExact ==
    Done =>
        /\ \A i \in 1..Len(outcome) :
             /\ fetched[outcome[i].video_id].called
             /\ outcome[i].metadata = fetched[outcome[i].video_id].metadata
        /\ ~FilterOff =>
             /\ \A i \in 1..Len(outcome) :
                  outcome[i].metadata.channel_title = channel_filter
             /\ \A v \in VideoIds :
                  (fetched[v].called /\ fetched[v].metadata.channel_title = channel_filter)
                      => InOutcome(v)
        /\ FilterOff =>
             \A v \in CachedIds(cache) : MatchingSegments(v) # << >> => InOutcome(v)

ChannelFilterWitness ==
    /\ Done
    /\ channel_filter = str_A
    /\ \E v, w \in VideoIds :
         /\ InOutcome(v)
         /\ fetched[w].called
         /\ fetched[w].metadata.channel_title = str_a
         /\ ~InOutcome(w)

Position(q, x) == CHOOSE i \in 1..Len(q) : q[i] = x

\* C10: the outcome holds the results ordered by published_at descending,
\* compared as raw strings, and results with equal published_at keep the
\* order in which the cache directory was iterated.
SortedNewestFirst ==
    Done =>
        /\ Len(outcome) = Len(results)
        /\ Range(outcome) = Range(results)
        /\ \A i, j \in 1..Len(outcome) : i < j =>
             /\ ~StrLess(outcome[i].metadata.published_at,
                         outcome[j].metadata.published_at)
             /\ outcome[i].metadata.published_at = outcome[j].metadata.published_at
                    => Position(files, outcome[i].video_id)
                           < Position(files, outcome[j].video_id)

SortedWitness ==
    /\ Done
    /\ \E i, j \in 1..Len(outcome) :
         /\ i < j
         /\ outcome[i].metadata.published_at = str_Unknown
         /\ outcome[j].metadata.published_at = str_2024_06_01
         /\ Position(files, outcome[i].video_id) > Position(files, outcome[j].video_id)

====
